---- MODULE Spec2Model ----
(***************************************************************************)
(* Model of the weather consumer (src/app/consumer/consumer.py).           *)
(*                                                                         *)
(* Numeric readings are kept in hundredths (25.5 is 2550), which is the    *)
(* resolution of the DECIMAL(5,2) columns.  A message body is described by *)
(* what json.loads, bytes.decode and the validator can observe of it: its  *)
(* byte encoding, the kind of JSON text, which keys it has and the type    *)
(* and value of each.  Exceptions are named by their Python class.         *)
(***************************************************************************)
EXTENDS Integers, Sequences, FiniteSets, TLC

VARIABLES pc, pg_conn, rabbit_conn, channel, tableCols, weather_logs,
          msgs, ready, unacked, deliveries, delivered, terminal, last, connLog, stopLog

vars == <<pc, pg_conn, rabbit_conn, channel, tableCols, weather_logs,
          msgs, ready, unacked, deliveries, delivered, terminal, last, connLog, stopLog>>

\* ------------------------------------------------------------------ bounds
MaxMsgs == 2
MaxDeliveries == 3

\* ------------------------------------------------------- program constants
max_retries == 5
TemperaturaMin == -5000
TemperaturaMax == 6000
HumedadMin == 0
HumedadMax == 10000

connection_attempts == max_retries

required_fields == {"timestamp", "temperatura", "humedad"}

\* columns of weather_logs as CREATE TABLE IF NOT EXISTS makes them
CreateTableColumns == {"id", "timestamp", "temperature", "humidity", "created_at"}

\* columns named by the INSERT statement
InsertColumns == {"timestamp", "temperatura", "humedad"}

\* ------------------------------------------------------------ message bodies
Num(v) == [type |-> "number", v |-> v]
Str == [type |-> "string", v |-> 0]
Bool == [type |-> "bool", v |-> 100]
Absent == [type |-> "absent", v |-> 0]

\* Scenario A: {"timestamp":"2024-01-01T12:00:00Z","temperatura":25.5,"humedad":60.2}
BaseBody ==
  [enc |-> "utf8", json |-> "object", timestamp |-> "iso_z",
   temperatura |-> Num(2550), humedad |-> Num(6020), extra |-> {}]

Bodies ==
  {[BaseBody EXCEPT !.enc = e] : e \in {"utf8", "utf16bom"}}
  \cup {[BaseBody EXCEPT !.json = "malformed", !.enc = e] :
          e \in {"utf8", "utf16bom", "undecodable"}}
  \cup {[BaseBody EXCEPT !.json = "array"]}
  \cup {[BaseBody EXCEPT !.humedad = Absent, !.enc = e] : e \in {"utf8", "utf16bom"}}
  \cup {[BaseBody EXCEPT !.temperatura = Str]}
  \cup {[BaseBody EXCEPT !.temperatura = Num(99900), !.extra = x] :
          x \in {{}, {"temperature"}}}
  \cup {[BaseBody EXCEPT !.humedad = Num(10001)]}
  \cup {[BaseBody EXCEPT !.timestamp = t] : t \in {"iso_naive", "not_iso", "number"}}
  \cup {[BaseBody EXCEPT !.temperatura = Num(TemperaturaMin), !.humedad = Num(HumedadMax),
                         !.timestamp = "iso_offset", !.extra = {"irradiance"}]}

\* every combination of field defects of a UTF-8 JSON object, and the bodies above
TemperaturaValues ==
  {Absent, Str, Bool, Num(-5001), Num(TemperaturaMin), Num(2550), Num(TemperaturaMax),
   Num(6001)}

HumedadValues ==
  {Absent, Str, Bool, Num(-1), Num(HumedadMin), Num(6020), Num(HumedadMax), Num(10001)}

Timestamps == {"absent", "iso_z", "iso_offset", "iso_naive", "not_iso", "number"}

AllBodies ==
  Bodies \cup
  {[enc |-> "utf8", json |-> "object", timestamp |-> ts, temperatura |-> t,
    humedad |-> h, extra |-> x] :
     ts \in Timestamps, t \in TemperaturaValues, h \in HumedadValues,
     x \in SUBSET {"temperature", "humidity"}}

\* data.keys() of the parsed object
Keys(body) ==
  {k \in required_fields :
      \/ k = "timestamp" /\ body.timestamp # "absent"
      \/ k = "temperatura" /\ body.temperatura.type # "absent"
      \/ k = "humedad" /\ body.humedad.type # "absent"}
  \cup body.extra

\* ---------------------------------------------------------- exception classes
\* the except clauses of _process_message test isinstance against these
IsInstance(exc, cls) ==
  CASE cls = "JSONDecodeError" -> exc = "JSONDecodeError"
    [] cls = "ValueError" -> exc \in {"ValueError", "JSONDecodeError", "UnicodeDecodeError"}
    [] cls = "OperationalError" -> exc = "OperationalError"
    [] cls = "Exception" -> exc # "none"
    [] OTHER -> FALSE

\* ------------------------------------------------------------- pure helpers
\* json.loads(body): bytes are decoded first (UTF-8, or UTF-16/32 when a BOM
\* says so), then parsed.  Returns the exception class raised, or "none".
json_loads(body) ==
  IF body.enc = "undecodable" THEN "UnicodeDecodeError"
  ELSE IF body.json = "malformed" THEN "JSONDecodeError"
  ELSE "none"

\* body.decode() in the two logging calls: strict UTF-8
body_decode(body) ==
  IF body.enc = "utf8" THEN "none" ELSE "UnicodeDecodeError"

\* isinstance(x, (int, float)); bool is a subclass of int
IsNumeric(x) == x.type \in {"number", "bool"}

\* datetime.fromisoformat(ts.replace('Z', '+00:00'))
fromisoformat(ts) ==
  CASE ts = "number" -> "AttributeError"
    [] ts = "not_iso" -> "ValueError"
    [] OTHER -> "none"

\* the instant handed to the INSERT; a naive timestamp keeps no zone
ParsedTimestamp(ts) ==
  IF ts = "iso_naive" THEN "naive" ELSE "aware"

\* a validator that reports only one of the missing fields
missing_first_only(body) ==
  {CHOOSE f \in required_fields \ Keys(body) : TRUE}

\* missing = required_fields - data.keys()
missing(body) == required_fields \ Keys(body)

Raise(exc, detail, fields) == [exc |-> exc, detail |-> detail, fields |-> fields]

\* _validate_message: the checks in source order, the first failure raised
validate_message(body) ==
  IF body.json # "object" THEN Raise("AttributeError", "keys", {})
  ELSE IF ~(required_fields \subseteq Keys(body))
    THEN Raise("ValueError", "Campos obligatorios faltantes", missing(body))
  ELSE IF ~IsNumeric(body.temperatura)
    THEN Raise("ValueError", "Temperatura debe ser numerica", {})
  ELSE IF ~IsNumeric(body.humedad)
    THEN Raise("ValueError", "Humedad debe ser numerica", {})
  ELSE IF ~(TemperaturaMin <= body.temperatura.v /\ body.temperatura.v <= TemperaturaMax)
    THEN IF "temperature" \in Keys(body)
           THEN Raise("ValueError", "Temperatura fuera de rango", {"temperature"})
           ELSE Raise("KeyError", "temperature", {"temperature"})
  ELSE IF ~(HumedadMin <= body.humedad.v /\ body.humedad.v <= HumedadMax)
    THEN IF "humidity" \in Keys(body)
           THEN Raise("ValueError", "Humedad fuera de rango", {"humidity"})
           ELSE Raise("KeyError", "humidity", {"humidity"})
  ELSE IF fromisoformat(body.timestamp) = "ValueError"
    THEN Raise("ValueError", "Formato de timestamp invalido", {})
  ELSE IF fromisoformat(body.timestamp) # "none"
    THEN Raise(fromisoformat(body.timestamp), "replace", {})
  ELSE Raise("none", "", {})

\* ----------------------------------------------------------- store connection
NoConn == [state |-> "none", tx |-> "idle"]
NewConn == [state |-> "open", tx |-> "idle"]

conn_close(conn) == [state |-> "closed", tx |-> "idle"]

\* DECIMAL(5,2): a value given in thousandths is rounded half away from zero to
\* hundredths; five digits of precision leave three before the point
decimal_5_2(x) ==
  IF x >= 0 THEN (x + 5) \div 10 ELSE -((5 - x) \div 10)

\* the table without its CHECK on humidity
table_insert_no_humidity_check(ts, temperature, humidity) ==
  LET t == decimal_5_2(temperature.v)
      h == decimal_5_2(humidity.v)
  IN
  IF ts = "null" \/ temperature.type = "null" \/ humidity.type = "null"
    THEN [exc |-> "NotNullViolation", row |-> <<>>]
  ELSE IF temperature.type # "number" \/ humidity.type # "number"
    THEN [exc |-> "DatatypeMismatch", row |-> <<>>]
  ELSE IF t <= -100000 \/ t >= 100000 \/ h <= -100000 \/ h >= 100000
    THEN [exc |-> "NumericValueOutOfRange", row |-> <<>>]
  ELSE IF ~(TemperaturaMin <= t /\ t <= TemperaturaMax)
    THEN [exc |-> "CheckViolation", row |-> <<>>]
  ELSE [exc |-> "none",
        row |-> <<[timestamp |-> ts, temperature |-> t, humidity |-> h]>>]

\* what the table made by CREATE TABLE does with a row that names its columns:
\* NOT NULL, the column type and its precision, then the CHECK constraints.
\* Readings come in thousandths; the stored row holds hundredths.
table_insert(ts, temperature, humidity) ==
  LET t == decimal_5_2(temperature.v)
      h == decimal_5_2(humidity.v)
  IN
  IF ts = "null" \/ temperature.type = "null" \/ humidity.type = "null"
    THEN [exc |-> "NotNullViolation", row |-> <<>>]
  ELSE IF temperature.type # "number" \/ humidity.type # "number"
    THEN [exc |-> "DatatypeMismatch", row |-> <<>>]
  ELSE IF t <= -100000 \/ t >= 100000 \/ h <= -100000 \/ h >= 100000
    THEN [exc |-> "NumericValueOutOfRange", row |-> <<>>]
  ELSE IF ~(TemperaturaMin <= t /\ t <= TemperaturaMax)
    THEN [exc |-> "CheckViolation", row |-> <<>>]
  ELSE IF ~(HumedadMin <= h /\ h <= HumedadMax)
    THEN [exc |-> "CheckViolation", row |-> <<>>]
  ELSE [exc |-> "none",
        row |-> <<[timestamp |-> ts, temperature |-> t, humidity |-> h]>>]

\* cursor.execute(INSERT ...) on the current connection.  storeUp says whether
\* the server side of the connection is still there when the statement is sent.
cursor_execute(conn, cols, storeUp) ==
  IF conn.state # "open" THEN [exc |-> "InterfaceError", tx |-> conn.tx]
  ELSE IF ~storeUp THEN [exc |-> "OperationalError", tx |-> conn.tx]
  ELSE IF conn.tx = "aborted" THEN [exc |-> "InFailedSqlTransaction", tx |-> "aborted"]
  ELSE IF ~(InsertColumns \subseteq cols) THEN [exc |-> "UndefinedColumn", tx |-> "aborted"]
  ELSE [exc |-> "none", tx |-> "open"]

\* CREATE TABLE IF NOT EXISTS: an existing table is left as it is
setup_postgres(cols) ==
  IF cols = {} THEN CreateTableColumns ELSE cols

\* ---------------------------------------------------------- connect with retry
\* `down` is the number of leading connection attempts that the target refuses.
RECURSIVE connect_postgres_loop(_, _, _)
connect_postgres_loop(attempt, down, trace) ==
  IF attempt > max_retries THEN [result |-> "RuntimeError", trace |-> trace]
  ELSE IF attempt > down THEN [result |-> "connected", trace |-> Append(trace, "ok")]
  ELSE connect_postgres_loop(attempt + 1, down,
         IF attempt < max_retries THEN trace \o <<"fail", "sleep">>
                                  ELSE Append(trace, "fail"))

connect_postgres_with_retry(down) == connect_postgres_loop(1, down, <<>>)

\* pika.BlockingConnection(parameters): the library itself makes up to
\* parameters.connection_attempts socket attempts, retry_delay apart, before it
\* raises AMQPConnectionError.  `made` counts the attempts made so far.
RECURSIVE BlockingConnection(_, _, _, _)
BlockingConnection(remaining, down, made, trace) ==
  IF remaining = 0 THEN [exc |-> "AMQPConnectionError", made |-> made, trace |-> trace]
  ELSE IF made + 1 > down
    THEN [exc |-> "none", made |-> made + 1, trace |-> Append(trace, "ok")]
  ELSE BlockingConnection(remaining - 1, down, made + 1,
         IF remaining > 1 THEN trace \o <<"fail", "sleep">>
                          ELSE Append(trace, "fail"))

RECURSIVE connect_rabbitmq_loop(_, _, _, _)
connect_rabbitmq_loop(attempt, down, made, trace) ==
  IF attempt > max_retries THEN [result |-> "RuntimeError", trace |-> trace]
  ELSE LET c == BlockingConnection(connection_attempts, down, made, trace) IN
       IF c.exc = "none" THEN [result |-> "connected", trace |-> c.trace]
       ELSE connect_rabbitmq_loop(attempt + 1, down, c.made,
              IF attempt < max_retries THEN Append(c.trace, "sleep") ELSE c.trace)

connect_rabbitmq_with_retry(down) == connect_rabbitmq_loop(1, down, 0, <<>>)

\* ------------------------------------------------------------ _process_message
\* first except clause, in source order, whose class the exception is an instance of
Handler(exc) ==
  IF exc = "none" THEN "none"
  ELSE IF IsInstance(exc, "JSONDecodeError") THEN "JSONDecodeError"
  ELSE IF IsInstance(exc, "ValueError") THEN "ValueError"
  ELSE IF IsInstance(exc, "OperationalError") THEN "OperationalError"
  ELSE "Exception"

\* the try block up to and including commit: the exception it raises, the
\* connection afterwards, the rows it committed, whether the INSERT was sent
try_block(body, conn, cols, storeUp) ==
  IF json_loads(body) # "none"
    THEN [exc |-> json_loads(body), conn |-> conn, created |-> <<>>, persist |-> FALSE,
          error |-> Raise(json_loads(body), "json.loads", {})]
  ELSE IF validate_message(body).exc # "none"
    THEN [exc |-> validate_message(body).exc, conn |-> conn, created |-> <<>>,
          persist |-> FALSE, error |-> validate_message(body)]
  ELSE LET x == cursor_execute(conn, cols, storeUp)
           ins == table_insert(ParsedTimestamp(body.timestamp),
                               [body.temperatura EXCEPT !.v = @ * 10],
                               [body.humedad EXCEPT !.v = @ * 10])
       IN
       IF x.exc # "none"
         THEN [exc |-> x.exc, conn |-> [conn EXCEPT !.tx = x.tx], created |-> <<>>,
               persist |-> TRUE, error |-> Raise(x.exc, "cursor.execute", {})]
       ELSE IF ins.exc # "none"
         THEN [exc |-> ins.exc, conn |-> [conn EXCEPT !.tx = "aborted"], created |-> <<>>,
               persist |-> TRUE, error |-> Raise(ins.exc, "cursor.execute", {})]
       ELSE [exc |-> "none", conn |-> [conn EXCEPT !.tx = "idle"],
             created |-> ins.row, persist |-> TRUE, error |-> Raise("none", "", {})]

\* _reconnect_postgres: close (errors swallowed), connect with retry, ensure
\* schema.  `down` attempts are refused; schemaOk says whether the CREATE
\* statements get through on the new connection.
reconnect_postgres(conn, cols, down, schemaOk) ==
  LET c == connect_postgres_with_retry(down) IN
  IF c.result # "connected"
    THEN [escaped |-> c.result, conn |-> conn_close(conn), cols |-> cols,
          steps |-> <<"close", "connect">>, log |-> c]
  ELSE IF ~schemaOk
    THEN [escaped |-> "OperationalError", conn |-> NewConn, cols |-> cols,
          steps |-> <<"close", "connect", "setup">>, log |-> c]
  ELSE [escaped |-> "none", conn |-> NewConn, cols |-> setup_postgres(cols),
        steps |-> <<"close", "connect", "setup">>, log |-> c]

NoLog == [result |-> "none", trace |-> <<>>]

\* basic_ack / basic_nack on the channel: the call raises when the channel is no
\* longer usable (channelOk false)
channel_call(action, channelOk) ==
  IF channelOk THEN [actions |-> <<action>>, exc |-> "none"]
  ELSE [actions |-> <<>>, exc |-> "ChannelWrongStateError"]

process_message(body, conn, cols, storeUp, down, schemaOk, channelOk) ==
  LET t == try_block(body, conn, cols, storeUp)
      \* basic_ack is the last statement of the try block
      ack == IF t.exc = "none" THEN channel_call("ack", channelOk)
             ELSE [actions |-> <<>>, exc |-> t.exc]
      h == Handler(ack.exc)
      base == [exc |-> ack.exc, handler |-> h, persist |-> t.persist, created |-> t.created,
               error |-> t.error, conn |-> t.conn, cols |-> cols, actions |-> ack.actions,
               escaped |-> "none", recon |-> <<>>, log |-> NoLog]
      discard == channel_call("nack_discard", channelOk)
      requeue == channel_call("nack_requeue", channelOk)
  IN
  CASE h = "none" -> base
    [] h \in {"JSONDecodeError", "ValueError"} ->
         IF body_decode(body) # "none"
           THEN [base EXCEPT !.escaped = body_decode(body)]
           ELSE [base EXCEPT !.actions = discard.actions, !.escaped = discard.exc]
    [] h = "OperationalError" ->
         LET r == reconnect_postgres(t.conn, cols, down, schemaOk) IN
         [base EXCEPT !.conn = r.conn, !.cols = r.cols, !.recon = r.steps, !.log = r.log,
                      !.escaped = IF r.escaped = "none" THEN requeue.exc ELSE r.escaped,
                      !.actions = IF r.escaped = "none" THEN requeue.actions ELSE <<>>]
    [] h = "Exception" -> [base EXCEPT !.actions = discard.actions, !.escaped = discard.exc]

\* ------------------------------------------------------------------- stop()
\* the releases stop() attempts when the release named failAt raises
ReleaseOrder == <<"channel", "rabbit_conn", "pg_conn">>

stop(failAt) ==
  IF failAt = "channel" THEN SubSeq(ReleaseOrder, 1, 1)
  ELSE IF failAt = "rabbit_conn" THEN SubSeq(ReleaseOrder, 1, 2)
  ELSE ReleaseOrder

\* a resource is closed when its release was attempted and did not raise
Released(name, failAt) ==
  /\ \E i \in 1..Len(stop(failAt)) : stop(failAt)[i] = name
  /\ failAt # name

FailAt == {"none", "channel", "rabbit_conn", "pg_conn"}

\* --------------------------------------------------------------------- state
NoRun ==
  [msg |-> 0, storeUp |-> TRUE, channelOk |-> TRUE, exc |-> "none", handler |-> "none",
   persist |-> FALSE, created |-> <<>>, error |-> Raise("none", "", {}),
   actions |-> <<>>, escaped |-> "none", recon |-> <<>>, prevExc |-> "none"]

FirstTry == [result |-> "connected", trace |-> <<"ok">>]

\* the process before WeatherConsumer() is called
InitStartup ==
  /\ pc = "init"
  /\ pg_conn = NoConn
  /\ rabbit_conn = "none"
  /\ channel = "none"
  /\ tableCols = {}
  /\ weather_logs = <<>>
  /\ msgs \in [1..MaxMsgs -> Bodies]
  /\ ready = [i \in 1..MaxMsgs |-> i]
  /\ unacked = {}
  /\ deliveries = 0
  /\ delivered = <<>>
  /\ terminal = <<>>
  /\ last = NoRun
  /\ connLog = [postgres |-> NoLog, rabbitmq |-> NoLog]
  /\ stopLog = <<>>

\* the consumer after construction and basic_consume, waiting in start_consuming
Init ==
  /\ pc = "consuming"
  /\ pg_conn = NewConn
  /\ rabbit_conn = "open"
  /\ channel = "open"
  /\ tableCols = setup_postgres({})
  /\ weather_logs = <<>>
  /\ msgs \in [1..MaxMsgs -> Bodies]
  /\ ready = [i \in 1..MaxMsgs |-> i]
  /\ unacked = {}
  /\ deliveries = 0
  /\ delivered = <<>>
  /\ terminal = <<>>
  /\ last = NoRun
  /\ connLog = [postgres |-> FirstTry, rabbitmq |-> FirstTry]
  /\ stopLog = <<>>

\* ------------------------------------------------------------------- startup
\* __init__ line 24; a RuntimeError leaves __main__ with consumer = None
ConnectPostgres ==
  /\ pc = "init"
  /\ \E down \in 0..max_retries :
       LET c == connect_postgres_with_retry(down) IN
       /\ connLog' = [connLog EXCEPT !.postgres = c]
       /\ pg_conn' = IF c.result = "connected" THEN NewConn ELSE pg_conn
       /\ pc' = IF c.result = "connected" THEN "pg_connected" ELSE "exited"
  /\ UNCHANGED <<rabbit_conn, channel, tableCols, weather_logs, msgs, ready, unacked,
                 deliveries, delivered, terminal, last, stopLog>>

\* __init__ line 25
ConnectRabbitmq ==
  /\ pc = "pg_connected"
  /\ \E down \in 0..(max_retries * connection_attempts) :
       LET c == connect_rabbitmq_with_retry(down) IN
       /\ connLog' = [connLog EXCEPT !.rabbitmq = c]
       /\ rabbit_conn' = IF c.result = "connected" THEN "open" ELSE rabbit_conn
       /\ pc' = IF c.result = "connected" THEN "rabbit_connected" ELSE "exited"
  /\ UNCHANGED <<pg_conn, channel, tableCols, weather_logs, msgs, ready, unacked,
                 deliveries, delivered, terminal, last, stopLog>>

\* __init__ line 26 and start_consuming up to the blocking loop
\* _setup_rabbitmq then _setup_postgres; when either raises (failAt), __init__
\* raises and __main__ is left with consumer = None
SetupInfrastructure ==
  /\ pc = "rabbit_connected"
  /\ \E failAt \in {"none", "rabbitmq", "postgres"} :
       /\ channel' = IF failAt = "rabbitmq" THEN channel ELSE "open"
       /\ tableCols' = IF failAt = "none" THEN setup_postgres(tableCols) ELSE tableCols
       /\ pc' = IF failAt = "none" THEN "consuming" ELSE "exited"
  /\ UNCHANGED <<pg_conn, rabbit_conn, weather_logs, msgs, ready, unacked,
                 deliveries, delivered, terminal, last, connLog, stopLog>>

\* ------------------------------------------------------------------- running
\* delivery as the broker does it when no prefetch limit is set
DeliverWithoutPrefetch ==
  /\ pc \in {"consuming", "callback"}
  /\ channel = "open"
  /\ ready # <<>>
  /\ deliveries < MaxDeliveries
  /\ unacked' = unacked \cup {Head(ready)}
  /\ ready' = Tail(ready)
  /\ deliveries' = deliveries + 1
  /\ delivered' = Append(delivered, Head(ready))
  /\ pc' = "callback"
  /\ UNCHANGED <<pg_conn, rabbit_conn, channel, tableCols, weather_logs, msgs,
                 terminal, last, connLog, stopLog>>

\* the broker hands over the next ready message; prefetch_count=1 lets it do so
\* only while nothing is unacknowledged
Deliver ==
  /\ pc = "consuming"
  /\ channel = "open"
  /\ unacked = {}
  /\ ready # <<>>
  /\ deliveries < MaxDeliveries
  /\ unacked' = {Head(ready)}
  /\ ready' = Tail(ready)
  /\ deliveries' = deliveries + 1
  /\ delivered' = Append(delivered, Head(ready))
  /\ pc' = "callback"
  /\ UNCHANGED <<pg_conn, rabbit_conn, channel, tableCols, weather_logs, msgs,
                 terminal, last, connLog, stopLog>>

ProcessMessage ==
  /\ pc = "callback"
  /\ \E m \in unacked, storeUp \in BOOLEAN, down \in 0..max_retries, schemaOk \in BOOLEAN,
        channelOk \in BOOLEAN :
       \E r \in {process_message(msgs[m], pg_conn, tableCols, storeUp, down, schemaOk,
                               channelOk)} :
       /\ pg_conn' = r.conn
       /\ tableCols' = r.cols
       /\ weather_logs' = weather_logs \o
            [i \in 1..Len(r.created) |->
               [id |-> Len(weather_logs) + i, msg |-> m,
                timestamp |-> r.created[i].timestamp,
                temperature |-> r.created[i].temperature,
                humidity |-> r.created[i].humidity]]
       /\ terminal' = terminal \o
            [i \in 1..Len(r.actions) |-> [msg |-> m, action |-> r.actions[i]]]
       /\ unacked' = IF r.actions = <<>> THEN unacked ELSE unacked \ {m}
       /\ ready' = IF r.actions # <<>> /\ r.actions[1] = "nack_requeue"
                     THEN <<m>> \o ready ELSE ready
       /\ connLog' = IF r.recon = <<>> THEN connLog ELSE [connLog EXCEPT !.postgres = r.log]
       /\ last' = [msg |-> m, storeUp |-> storeUp, channelOk |-> channelOk, exc |-> r.exc,
                   handler |-> r.handler, persist |-> r.persist, created |-> r.created,
                   error |-> r.error, actions |-> r.actions, escaped |-> r.escaped,
                   recon |-> r.recon, prevExc |-> IF last.msg = 0 THEN "none" ELSE last.exc]
       /\ pc' = IF r.escaped = "none" THEN "consuming" ELSE "crashed"
  /\ UNCHANGED <<rabbit_conn, channel, msgs, deliveries, delivered, stopLog>>

StopEffect(failAt) ==
  /\ stopLog' = stop(failAt)
  /\ channel' = IF Released("channel", failAt) THEN "closed" ELSE channel
  /\ rabbit_conn' = IF Released("rabbit_conn", failAt) THEN "closed" ELSE rabbit_conn
  /\ pg_conn' = IF Released("pg_conn", failAt) THEN conn_close(pg_conn) ELSE pg_conn

\* KeyboardInterrupt out of channel.start_consuming(): start_consuming calls stop()
KeyboardInterrupt ==
  /\ pc = "consuming"
  /\ \E failAt \in FailAt : StopEffect(failAt)
  /\ pc' = "stopped"
  /\ UNCHANGED <<tableCols, weather_logs, msgs, ready, unacked, deliveries, delivered,
                 terminal, last, connLog>>

\* SIGINT while _process_message runs: Python raises KeyboardInterrupt in the
\* callback (here at its first statement); no except clause of the callback
\* takes a BaseException, so it reaches start_consuming, which calls stop()
InterruptInCallback ==
  /\ pc = "callback"
  /\ \E failAt \in FailAt : StopEffect(failAt)
  /\ pc' = "stopped"
  /\ UNCHANGED <<tableCols, weather_logs, msgs, ready, unacked, deliveries, delivered,
                 terminal, last, connLog>>

\* an exception that left _process_message reaches __main__: stop(), then re-raise
MainExcept ==
  /\ pc = "crashed"
  /\ \E failAt \in FailAt : StopEffect(failAt)
  /\ pc' = "exited"
  /\ UNCHANGED <<tableCols, weather_logs, msgs, ready, unacked, deliveries, delivered,
                 terminal, last, connLog>>

NextStartup == ConnectPostgres \/ ConnectRabbitmq \/ SetupInfrastructure

Next == Deliver \/ ProcessMessage \/ KeyboardInterrupt \/ InterruptInCallback \/ MainExcept

\* one message of any shape, delivered to the consumer after construction
InitValidate ==
  /\ pc = "consuming"
  /\ pg_conn = NewConn
  /\ rabbit_conn = "open"
  /\ channel = "open"
  /\ tableCols = setup_postgres({})
  /\ weather_logs = <<>>
  /\ \E b \in AllBodies : msgs = [i \in 1..MaxMsgs |-> b]
  /\ ready = <<1>>
  /\ unacked = {}
  /\ deliveries = 0
  /\ delivered = <<>>
  /\ terminal = <<>>
  /\ last = NoRun
  /\ connLog = [postgres |-> FirstTry, rabbitmq |-> FirstTry]
  /\ stopLog = <<>>

NextValidate == Deliver \/ ProcessMessage

SpecValidate == InitValidate /\ [][NextValidate]_vars

\* the table weather_logs on its own: any client may insert any row that names
\* the table's columns
MaxRows == 2

RowTimestamps == {"aware", "naive", "null"}

RowTemperatures ==
  {Num(-50005), Num(-50004), Num(25500), Num(60004), Num(60005), Num(100000000),
   [type |-> "null", v |-> 0]}

RowHumidities ==
  {Num(-5), Num(-4), Num(60200), Num(100004), Num(100005), [type |-> "null", v |-> 0]}

InitStore ==
  /\ pc = "consuming"
  /\ pg_conn = NewConn
  /\ rabbit_conn = "open"
  /\ channel = "open"
  /\ tableCols = setup_postgres({})
  /\ weather_logs = <<>>
  /\ msgs = [i \in 1..MaxMsgs |-> BaseBody]
  /\ ready = <<>>
  /\ unacked = {}
  /\ deliveries = 0
  /\ delivered = <<>>
  /\ terminal = <<>>
  /\ last = NoRun
  /\ connLog = [postgres |-> FirstTry, rabbitmq |-> FirstTry]
  /\ stopLog = <<>>

StoreInsert ==
  /\ tableCols = CreateTableColumns
  /\ Len(weather_logs) < MaxRows
  /\ \E ts \in RowTimestamps, t \in RowTemperatures, h \in RowHumidities :
       LET ins == table_insert(ts, t, h) IN
       weather_logs' = weather_logs \o
         [i \in 1..Len(ins.row) |->
            [id |-> Len(weather_logs) + i, msg |-> 0,
             timestamp |-> ins.row[i].timestamp,
             temperature |-> ins.row[i].temperature,
             humidity |-> ins.row[i].humidity]]
  /\ UNCHANGED <<pc, pg_conn, rabbit_conn, channel, tableCols, msgs, ready, unacked,
                 deliveries, delivered, terminal, last, connLog, stopLog>>

NextStore == StoreInsert

SpecStore == InitStore /\ [][NextStore]_vars

SpecStartup == InitStartup /\ [][NextStartup]_vars

Spec == Init /\ [][Next]_vars

\* ------------------------------------------------------------------- claims
\* What the claims say of a body, stated on the body itself.
ParsesAsObject(body) == body.enc # "undecodable" /\ body.json = "object"

NotParseableJSON(body) == body.enc = "undecodable" \/ body.json = "malformed"

InRange(body) ==
  /\ body.temperatura.type = "number"
  /\ body.humedad.type = "number"
  /\ -5000 <= body.temperatura.v /\ body.temperatura.v <= 6000
  /\ 0 <= body.humedad.v /\ body.humedad.v <= 10000

WellFormedReading(body) ==
  /\ ParsesAsObject(body)
  /\ body.timestamp \in {"iso_z", "iso_offset"}
  /\ InRange(body)

\* a required field missing, a reading that is not a number or out of range,
\* or a timestamp string that is not ISO-8601
FailsValidation(body) ==
  \/ body.timestamp = "absent"
  \/ body.temperatura.type \in {"absent", "string"}
  \/ body.humedad.type \in {"absent", "string"}
  \/ body.temperatura.type = "number"
       /\ (body.temperatura.v < -5000 \/ body.temperatura.v > 6000)
  \/ body.humedad.type = "number" /\ (body.humedad.v < 0 \/ body.humedad.v > 10000)
  \/ body.timestamp = "not_iso"

Ran == last.msg # 0

InQueue(m) == m \in unacked \/ \E i \in 1..Len(ready) : ready[i] = m

\* C1: a well-formed reading delivered while the store is reachable ends with
\* exactly one StoreRecord holding its values and with basic_ack.
C1_ValidMessagePersistedAndAcked ==
  (Ran /\ WellFormedReading(msgs[last.msg]) /\ last.storeUp) =>
    /\ last.actions = <<"ack">>
    /\ Len(last.created) = 1
    /\ last.created[1].temperature = msgs[last.msg].temperatura.v
    /\ last.created[1].humidity = msgs[last.msg].humedad.v

\* C2: a body that parses as a JSON object and fails validation is nacked with
\* requeue=false, is not put back on the queue, and creates no StoreRecord.
C2_InvalidMessageDiscarded ==
  (Ran /\ ParsesAsObject(msgs[last.msg]) /\ FailsValidation(msgs[last.msg])) =>
    /\ last.actions = <<"nack_discard">>
    /\ ~InQueue(last.msg)
    /\ last.created = <<>>

\* C3: a body that is not parseable JSON, undecodable bytes included, yields a
\* parse error, is nacked with requeue=false, and the consumer goes on.
C3_NonJsonDiscarded ==
  (Ran /\ NotParseableJSON(msgs[last.msg])) =>
    /\ last.exc \in {"JSONDecodeError", "UnicodeDecodeError"}
    /\ last.actions = <<"nack_discard">>
    /\ last.escaped = "none"

\* C4: a store-operational error while persisting a valid message is followed by
\* exactly one close / connect-with-retry / ensure-schema cycle and then by a
\* nack with requeue=true, which puts the message back for redelivery.
C4_OperationalErrorReconnectsAndRequeues ==
  (Ran /\ last.persist /\ last.exc = "OperationalError") =>
    /\ last.recon = <<"close", "connect", "setup">>
    /\ last.escaped = "none"
    /\ last.actions = <<"nack_requeue">>
    /\ InQueue(last.msg)

\* C5: once startup has completed, no error raised while a message is processed
\* leaves _process_message and terminates the consumer.
C5_NoErrorEscapesProcessing ==
  /\ pc \notin {"crashed", "exited"}
  /\ last.escaped = "none"

Attempts(trace) == Cardinality({i \in 1..Len(trace) : trace[i] \in {"ok", "fail"}})

\* C6: for the store and for the broker, connect-with-retry makes at most
\* maxAttempts attempts in all, stops at the first success, sleeps only between
\* a failed attempt and the next one, and fails for good after maxAttempts
\* failures.
C6_BoundedConnectAttempts ==
  \A target \in {"postgres", "rabbitmq"} :
    LET l == connLog[target] IN
    l.result # "none" =>
      /\ Attempts(l.trace) <= 5
      /\ \A i \in 1..Len(l.trace) :
           /\ l.trace[i] = "sleep" =>
                i > 1 /\ i < Len(l.trace) /\ l.trace[i - 1] = "fail"
                /\ l.trace[i + 1] \in {"ok", "fail"}
           /\ l.trace[i] = "ok" => i = Len(l.trace)
      /\ l.result = "connected" <=> l.trace[Len(l.trace)] = "ok"
      /\ l.result = "RuntimeError" <=>
           (Attempts(l.trace) = 5 /\ l.trace[Len(l.trace)] = "fail")

\* C7: stop() attempts to release the channel, the broker connection and the
\* store connection, in that order, whatever release raises.
C7_StopAttemptsAllReleases ==
  pc \in {"stopped", "exited"} => stopLog = <<"channel", "rabbit_conn", "pg_conn">>

\* C8: after a message has been persisted or has failed to be, the store
\* connection carries no open or aborted transaction.
C8_NoTransactionLeftOpen ==
  (Ran /\ last.persist) => pg_conn.tx = "idle"

\* C10: every delivery handled by _process_message gets exactly one terminal
\* action among ack, nack with requeue and nack without requeue.
C10_ExactlyOneTerminalAction ==
  Ran => Len(last.actions) = 1

\* C11: every StoreRecord in weather_logs has temperature in [-50, 60] and
\* humidity in [0, 100], whatever values the rows offered to the table carry.
C11_StoredRowsWithinRange ==
  \A i \in 1..Len(weather_logs) :
    /\ -5000 <= weather_logs[i].temperature /\ weather_logs[i].temperature <= 6000
    /\ 0 <= weather_logs[i].humidity /\ weather_logs[i].humidity <= 10000

\* C11 witness: the table holds rows at both ends of a range, offered next to
\* rows it refused
C11_Witness ==
  /\ Len(weather_logs) = 2
  /\ weather_logs[1].temperature = -5000
  /\ weather_logs[2].humidity = 10000

MissingFields(body) ==
  {f \in {"timestamp", "temperatura", "humedad"} :
      \/ f = "timestamp" /\ body.timestamp = "absent"
      \/ f = "temperatura" /\ body.temperatura.type = "absent"
      \/ f = "humedad" /\ body.humedad.type = "absent"}

\* C12: a JSON object missing a non-empty set M of required fields is refused
\* with the missing-fields error, whose message names exactly the fields of M.
C12_SchemaErrorNamesEveryMissingField ==
  (Ran /\ ParsesAsObject(msgs[last.msg]) /\ MissingFields(msgs[last.msg]) # {}) =>
    /\ last.error.exc = "ValueError"
    /\ last.error.detail = "Campos obligatorios faltantes"
    /\ last.error.fields = MissingFields(msgs[last.msg])

\* C12 witness: a body missing two fields was validated and both were named
C12_Witness ==
  /\ Ran
  /\ Cardinality(MissingFields(msgs[last.msg])) = 2
  /\ last.error.fields = MissingFields(msgs[last.msg])

\* C13: with both readings present and numeric, values on the bounds pass the
\* range check, and a value outside them is refused with a validation error
\* that names the field and its value.
C13_RangeBoundsInclusive ==
  (Ran /\ ParsesAsObject(msgs[last.msg]) /\ MissingFields(msgs[last.msg]) = {}
       /\ msgs[last.msg].temperatura.type = "number"
       /\ msgs[last.msg].humedad.type = "number") =>
    IF InRange(msgs[last.msg])
      THEN last.error.detail \notin
             {"Temperatura fuera de rango", "Humedad fuera de rango", "temperature",
              "humidity"}
      ELSE /\ last.error.exc = "ValueError"
           /\ last.error.detail \in {"Temperatura fuera de rango", "Humedad fuera de rango"}
           /\ last.error.fields \subseteq {"temperatura", "humedad"}

\* C14: at most one delivery is unacknowledged at any time, the callback works
\* on the latest delivery only, and terminal actions come in delivery order.
C14_OneAtATimeInDeliveryOrder ==
  /\ Cardinality(unacked) <= 1
  /\ Len(terminal) <= Len(delivered)
  /\ Len(delivered) <= Len(terminal) + 1
  /\ \A i \in 1..Len(terminal) : terminal[i].msg = delivered[i]
  /\ Len(delivered) = Len(terminal) + 1 => unacked = {delivered[Len(delivered)]}
  /\ Len(delivered) = Len(terminal) => unacked = {}

\* C14 witness: three deliveries of two messages, one of them redelivered, each
\* settled in turn
C14_Witness ==
  /\ Len(terminal) = 3
  /\ terminal[1].action = "nack_requeue"
  /\ terminal[2].msg = terminal[1].msg
  /\ terminal[3].msg # terminal[1].msg

\* C15: when the shutdown path has run after an interrupt, no delivered message
\* is left without its terminal action.
C15_InterruptWaitsForTerminalAction ==
  pc = "stopped" => unacked = {}

\* C16: validation accepts a timestamp only if it carries a zone ("Z" or an
\* offset): the INSERT is sent only for messages whose timestamp is
\* timezone-aware.
C16_NaiveTimestampRejected ==
  (Ran /\ last.persist) => msgs[last.msg].timestamp \in {"iso_z", "iso_offset"}

\* the steps of validation, 1 parse .. 5 timestamp format, that a body fails
DefectSteps(body) ==
  {k \in 1..5 :
     \/ k = 1 /\ NotParseableJSON(body)
     \/ k = 2 /\ MissingFields(body) # {}
     \/ k = 3 /\ (body.temperatura.type = "string" \/ body.humedad.type = "string")
     \/ k = 4 /\ \/ body.temperatura.type \in {"number", "bool"}
                    /\ (body.temperatura.v < -5000 \/ body.temperatura.v > 6000)
                 \/ body.humedad.type \in {"number", "bool"}
                    /\ (body.humedad.v < 0 \/ body.humedad.v > 10000)
     \/ k = 5 /\ body.timestamp \in {"not_iso", "number"}}

EarliestDefect(body) ==
  IF DefectSteps(body) = {} THEN 0
  ELSE CHOOSE k \in DefectSteps(body) : \A j \in DefectSteps(body) : k <= j

\* the kind of the error of the last run, as the step that reports it:
\* 1 parse error, 2 schema error, 3 type error, 4 range error, 5 format error,
\* 0 no validation error, -1 an error that is none of these kinds
ReportedKind ==
  CASE last.error.detail = "json.loads" -> 1
    [] last.error.exc = "none" \/ last.error.detail = "cursor.execute" -> 0
    [] last.error.exc = "ValueError" /\ last.error.detail = "Campos obligatorios faltantes"
         -> 2
    [] last.error.exc = "ValueError"
       /\ last.error.detail \in {"Temperatura debe ser numerica", "Humedad debe ser numerica"}
         -> 3
    [] last.error.exc = "ValueError"
       /\ last.error.detail \in {"Temperatura fuera de rango", "Humedad fuera de rango"}
         -> 4
    [] last.error.exc = "ValueError" /\ last.error.detail = "Formato de timestamp invalido"
         -> 5
    [] OTHER -> -1

\* C17: the checks run in the order parse, required fields, numeric type, range,
\* timestamp format and stop at the first that fails: the error reported for a
\* body is of the kind of the earliest step the body fails.
C17_FirstFailingStepReported ==
  (Ran /\ msgs[last.msg].json # "array") => ReportedKind = EarliestDefect(msgs[last.msg])

\* C18: a failure taken by the last except clause (neither a validation error
\* nor a store-operational error) ends with nack requeue=false and nothing
\* leaving _process_message.
C18_UnexpectedFailureDiscarded ==
  (Ran /\ last.handler = "Exception") =>
    /\ last.actions = <<"nack_discard">>
    /\ last.escaped = "none"

\* C19: after a message was discarded for a non-operational store error, a
\* well-formed message delivered next, store reachable, is persisted and acked.
C19_OutcomeIndependentOfEarlierMessages ==
  (Ran /\ last.prevExc \in {"UndefinedColumn", "CheckViolation", "DatatypeMismatch",
                            "InFailedSqlTransaction"}
       /\ WellFormedReading(msgs[last.msg]) /\ last.storeUp /\ last.channelOk) =>
    /\ last.exc = "none"
    /\ Len(last.created) = 1
    /\ last.actions = <<"ack">>

\* C20: when startup has aborted, no connection that was opened is still open.
C20_FailedStartupClosesConnections ==
  pc = "exited" =>
    /\ pg_conn.state # "open"
    /\ rabbit_conn # "open"

====
